---- MODULE Spec2Model ----
(***************************************************************************)
(* Binary Merkle-tree vector-commitment scheme, verifier side              *)
(* (crates/core/src/merkle_tree/scheme.rs).                                *)
(*                                                                         *)
(* The scheme is stateless: every entry point is a function of its         *)
(* arguments and of the proof-transcript reader it is handed.  Where the   *)
(* outcome depends on the build (integer overflow checks compiled in or    *)
(* not) an entry point has both outcomes.  Init draws one call (the entry  *)
(* point and its arguments) from bounded sets; the actions run the entry   *)
(* point.  fold_digests_vector_inplace is also run on its own, one buffer  *)
(* write per step, so that the buffer can be observed between and inside   *)
(* its passes.                                                             *)
(***************************************************************************)
EXTENDS Integers, Sequences, FiniteSets, TLC

VARIABLES op, args, tree, reader, pc, result, digests, len, i

vars == <<op, args, tree, reader, pc, result, digests, len, i>>

(***************************************************************************)
(* Bounds of the model.                                                    *)
(***************************************************************************)
\* width of usize in the model (the real width, 64, is beyond TLC's integers)
UsizeBits == 12
\* longest committed vector / longest vector handed to verify_vector
MaxData == 4
\* longest buffer handed to fold_digests_vector_inplace on its own
MaxFoldLen == 8
\* proof_size: vector lengths 0 .. 2^MaxLogLen + 1
MaxLogLen == 4
\* proof_size / optimal_verify_layer: n_queries 0 .. MaxQueries
MaxQueries == 8
\* optimal_verify_layer: tree_depth 0 .. MaxLayerArg
MaxLayerArg == 10

\* <H as Digest>::output_size() of the 256-bit hashes the scheme is used with
DigestByteSize == 32

\* the field elements of the model
Field == 0..3

(***************************************************************************)
(* Machine integers.                                                       *)
(***************************************************************************)
UsizeMod == 2 ^ UsizeBits

Min(a, b) == IF a <= b THEN a ELSE b

\* usize::is_power_of_two
IsPowerOfTwo(n) == \E k \in 0..(UsizeBits - 1) : 2 ^ k = n

\* log2_strict_usize, on a power of two
log2_strict_usize(n) == CHOOSE k \in 0..(UsizeBits - 1) : 2 ^ k = n

\* number of leading zero bits of a usize
LeadingZeros(a) ==
  IF a = 0 THEN UsizeBits
  ELSE UsizeBits - 1 - (CHOOSE k \in 0..(UsizeBits - 1) : 2 ^ k <= a /\ a < 2 ^ (k + 1))

\* log2_ceil_usize: usize::BITS - (a.saturating_sub(1)).leading_zeros()
log2_ceil_usize(a) == UsizeBits - LeadingZeros(IF a = 0 THEN 0 ELSE a - 1)

\* `1 << d` on usize: [v, overflow]; with the shift amount >= the width the
\* checked build panics and the unchecked one masks the amount
Shl1(d) ==
  IF d < UsizeBits THEN [v |-> 2 ^ d, overflow |-> FALSE]
  ELSE [v |-> 2 ^ (d % UsizeBits), overflow |-> TRUE]

(***************************************************************************)
(* Results of a call.                                                      *)
(***************************************************************************)
NoResult == [kind |-> "none", err |-> "", val |-> 0, wrapped |-> FALSE]
Ok(v) == [kind |-> "ok", err |-> "", val |-> v, wrapped |-> FALSE]
OkWrapped(v) == [kind |-> "ok", err |-> "", val |-> v, wrapped |-> TRUE]
Err(e) == [kind |-> "err", err |-> e, val |-> 0, wrapped |-> FALSE]
ErrMax(e, m) == [kind |-> "err", err |-> e, val |-> m, wrapped |-> FALSE]
Panic(why) == [kind |-> "panic", err |-> why, val |-> 0, wrapped |-> FALSE]

\* what an arithmetic overflow ends as: a panic with overflow checks on
\* (debug), the wrapped value without them (release)
OnOverflow(why, wrapped) == {Panic(why), wrapped}

(***************************************************************************)
(* Digests.  The leaf hash and the compression function are opaque and     *)
(* collision-free: a digest is the prefix code of the term that made it.   *)
(***************************************************************************)
\* hash_serialize::<F, H>(values)
hash_serialize(values) == <<0, Len(values)>> \o values

\* compression.compress([left, right])
compress(left, right) == <<1>> \o left \o right

\* digests that are no hash of field elements and no compression
Junk == {<<2>>, <<3>>}

(***************************************************************************)
(* optimal_verify_layer and proof_size.                                    *)
(***************************************************************************)
\* optimal_verify_layer without the clip to the tree's depth
optimal_verify_layer_unclipped(n_queries, tree_depth) ==
  log2_ceil_usize(n_queries)

optimal_verify_layer(n_queries, tree_depth) ==
  Min(log2_ceil_usize(n_queries), tree_depth)

\* (log_len - layer_depth - 1) * n_queries + (1 << layer_depth)) * output_size
ProofSizeValue(log_len, n_queries, layer_depth) ==
  LET a0 == log_len - layer_depth - 1
      a  == a0 % UsizeMod
      b0 == a * n_queries
      c0 == (b0 % UsizeMod) + 2 ^ layer_depth
      d0 == (c0 % UsizeMod) * DigestByteSize
      over == a0 < 0 \/ b0 >= UsizeMod \/ c0 >= UsizeMod \/ d0 >= UsizeMod
  IN  IF over
      THEN OnOverflow(IF a0 < 0 THEN "attempt to subtract with overflow"
                                ELSE "arithmetic overflow",
                      OkWrapped(d0 % UsizeMod))
      ELSE {Ok(d0)}

\* the set of outcomes of proof_size(len, n_queries, layer_depth)
proof_size(length, n_queries, layer_depth) ==
  IF ~IsPowerOfTwo(length) THEN {Err("PowerOfTwoLengthRequired")}
  ELSE LET log_len == log2_strict_usize(length)
       IN  IF layer_depth > log_len THEN {Err("IncorrectLayerDepth")}
           ELSE ProofSizeValue(log_len, n_queries, layer_depth)

(***************************************************************************)
(* fold_digests_vector_inplace.  Buffers are sequences; position p of the  *)
(* code is element p + 1.                                                  *)
(***************************************************************************)
\* the write of FoldWrite reading digests[i], digests[i + 1]
FoldWrite_adjacent(d, k) == [d EXCEPT ![k + 1] = compress(d[k + 1], d[k + 2])]

\* digests[i] = compress([digests[2 * i], digests[2 * i + 1]])
FoldWrite(d, k) == [d EXCEPT ![k + 1] = compress(d[2 * k + 1], d[2 * k + 2])]

\* for i in k..n { ... }
RECURSIVE FoldPass(_, _, _)
FoldPass(d, n, k) == IF k >= n THEN d ELSE FoldPass(FoldWrite(d, k), n, k + 1)

\* while len != 0 { for i in 0..len { ... }; len /= 2 }
RECURSIVE FoldLoop(_, _)
FoldLoop(d, n) == IF n = 0 THEN d ELSE FoldLoop(FoldPass(d, n, 0), n \div 2)

\* the whole routine: its result and the buffer it leaves
fold_digests_vector_inplace(d) ==
  IF ~IsPowerOfTwo(Len(d))
  THEN [res |-> Err("PowerOfTwoLengthRequired"), digests |-> d]
  ELSE [res |-> Ok(0), digests |-> FoldLoop(d, Len(d) \div 2)]

(***************************************************************************)
(* verify_vector and verify_layer.                                         *)
(***************************************************************************)
\* data.chunks(batch_size), batch_size > 0 (the last chunk may be shorter)
RECURSIVE Chunks(_, _)
Chunks(data, batch_size) ==
  IF Len(data) = 0 THEN <<>>
  ELSE IF Len(data) <= batch_size THEN <<data>>
  ELSE <<SubSeq(data, 1, batch_size)>>
         \o Chunks(SubSeq(data, batch_size + 1, Len(data)), batch_size)

\* the comparison of CompareRoot made with the last digest of the buffer
CompareRoot_last(folded, root) ==
  IF folded[Len(folded)] # root THEN Err("InvalidProof") ELSE Ok(0)

\* if digests[0] != *root { InvalidProof } else Ok(())
CompareRoot(folded, root) ==
  IF folded[1] # root THEN Err("InvalidProof") ELSE Ok(0)

\* the set of outcomes of verify_vector(root, data, batch_size)
verify_vector(root, data, batch_size) ==
  IF batch_size = 0
  THEN {Panic("attempt to calculate the remainder with a divisor of zero")}
  ELSE IF Len(data) % batch_size # 0 THEN {Err("IncorrectBatchSize")}
  ELSE LET chunks == Chunks(data, batch_size)
           leaves == [c \in 1..Len(chunks) |-> hash_serialize(chunks[c])]
           folded == fold_digests_vector_inplace(leaves)
       IN  IF folded.res.kind # "ok" THEN {folded.res}
           ELSE {CompareRoot(folded.digests, root)}

\* if 1 << layer_depth != layer_digests.len() { IncorrectVectorLength }:
\* the outcomes of the check, "pass", "reject" or "panic"
LayerLengthCheck(layer_depth, layer_digests) ==
  LET s == Shl1(layer_depth)
  IN  (IF s.overflow THEN {"panic"} ELSE {})
        \cup {IF s.v # Len(layer_digests) THEN "reject" ELSE "pass"}

\* verify_layer once the length check has passed
VerifyLayerFold(root, layer_digests) ==
  LET folded == fold_digests_vector_inplace(layer_digests)
  IN  IF folded.res.kind # "ok" THEN folded.res
      ELSE CompareRoot(folded.digests, root)

\* the set of outcomes of verify_layer(root, layer_depth, layer_digests)
verify_layer(root, layer_depth, layer_digests) ==
  { IF c = "panic" THEN Panic("attempt to shift left with overflow")
    ELSE IF c = "reject" THEN Err("IncorrectVectorLength")
    ELSE VerifyLayerFold(root, layer_digests)
    : c \in LayerLengthCheck(layer_depth, layer_digests) }

(***************************************************************************)
(* The proof transcript reader: a buffer of digests and a forward cursor.  *)
(***************************************************************************)
\* proof.read_vec(n): the digests read and the cursor after them, or a
\* stream error; after an error the cursor is anywhere from where it was to
\* the end of the buffer
read_vec(r, n) ==
  IF r.pos + n <= Len(r.buf)
  THEN {[ok |-> TRUE, items |-> SubSeq(r.buf, r.pos + 1, r.pos + n), pos |-> r.pos + n]}
  ELSE {[ok |-> FALSE, items |-> <<>>, pos |-> p] : p \in r.pos..Len(r.buf)}

(***************************************************************************)
(* verify_opening.                                                         *)
(***************************************************************************)
\* the check of IndexCheck reporting 1 << tree_depth as the maximum
IndexCheck_bound(index, tree_depth) ==
  LET t == Shl1(tree_depth)
  IN  (IF t.overflow THEN {Panic("attempt to shift left with overflow")} ELSE {})
        \cup {IF index >= t.v THEN ErrMax("IndexOutOfRange", t.v) ELSE Ok(0)}

\* if index >= (1 << tree_depth) { IndexOutOfRange { max: (1 << tree_depth) - 1 } }
IndexCheck(index, tree_depth) ==
  LET t == Shl1(tree_depth)
  IN  (IF t.overflow THEN {Panic("attempt to shift left with overflow")} ELSE {})
        \cup {IF index >= t.v THEN ErrMax("IndexOutOfRange", t.v - 1) ELSE Ok(0)}

\* the path length of PathLength taken to the root whatever the layer
PathLength_to_root(tree_depth, layer_depth) ==
  [n |-> tree_depth % UsizeMod, overflow |-> tree_depth < layer_depth]

\* tree_depth - layer_depth, the number of digests asked of the reader:
\* [n, overflow]
PathLength(tree_depth, layer_depth) ==
  [n |-> (tree_depth - layer_depth) % UsizeMod, overflow |-> tree_depth < layer_depth]

\* the recombination of Recombine with the running digest always on the left
Recombine_left(index, leaf_digest, branch_node) ==
  compress(leaf_digest, branch_node)

\* compress(if index & 1 == 0 { [leaf_digest, branch_node] }
\*          else { [branch_node, leaf_digest] })
Recombine(index, leaf_digest, branch_node) ==
  IF index % 2 = 0 THEN compress(leaf_digest, branch_node)
  ELSE compress(branch_node, leaf_digest)

\* the loop of Climb without `index >>= 1`
RECURSIVE Climb_unshifted(_, _, _)
Climb_unshifted(index, leaf_digest, branch_nodes) ==
  IF branch_nodes = <<>> THEN [index |-> index, leaf_digest |-> leaf_digest]
  ELSE Climb_unshifted(index, Recombine(index, leaf_digest, Head(branch_nodes)),
                       Tail(branch_nodes))

\* for branch_node in ... { leaf_digest = ...; index >>= 1 }
RECURSIVE Climb(_, _, _)
Climb(index, leaf_digest, branch_nodes) ==
  IF branch_nodes = <<>> THEN [index |-> index, leaf_digest |-> leaf_digest]
  ELSE Climb(index \div 2, Recombine(index, leaf_digest, Head(branch_nodes)),
             Tail(branch_nodes))

\* the comparison of CompareLayer made with the first digest of the layer
CompareLayer_first(top, layer_digests) ==
  IF top.index >= Len(layer_digests) THEN Panic("index out of bounds")
  ELSE IF top.leaf_digest = layer_digests[1] THEN Ok(0)
  ELSE Err("InvalidProof")

\* (leaf_digest == layer_digests[index]).then_some(()).ok_or(InvalidProof)
CompareLayer(top, layer_digests) ==
  IF top.index >= Len(layer_digests) THEN Panic("index out of bounds")
  ELSE IF top.leaf_digest = layer_digests[top.index + 1] THEN Ok(0)
  ELSE Err("InvalidProof")

\* verify_opening from the read of the path on: outcomes [res, pos]
OpeningRead(a, r, n) ==
  { IF rd.ok
    THEN [res |-> CompareLayer(Climb(a.index, hash_serialize(a.values), rd.items),
                               a.layer_digests),
          pos |-> rd.pos]
    ELSE [res |-> Err("TranscriptError"), pos |-> rd.pos]
    : rd \in read_vec(r, n) }

\* verify_opening once both shape checks have passed
OpeningPath(a, r) ==
  LET n == PathLength(a.tree_depth, a.layer_depth)
  IN  (IF n.overflow
       THEN {[res |-> Panic("attempt to subtract with overflow"), pos |-> r.pos]}
       ELSE {})
        \cup OpeningRead(a, r, n.n)

\* the set of outcomes [res, pos] of verify_opening(index, values, layer_depth,
\* tree_depth, layer_digests, proof), a the arguments and r the reader
verify_opening(a, r) ==
  UNION { IF c = "panic"
          THEN {[res |-> Panic("attempt to shift left with overflow"), pos |-> r.pos]}
          ELSE IF c = "reject"
          THEN {[res |-> Err("IncorrectVectorLength"), pos |-> r.pos]}
          ELSE UNION { IF x.kind # "ok" THEN {[res |-> x, pos |-> r.pos]}
                       ELSE OpeningPath(a, r)
                       : x \in IndexCheck(a.index, a.tree_depth) }
          : c \in LayerLengthCheck(a.layer_depth, a.layer_digests) }

(***************************************************************************)
(* The committed tree (the prover's side): a vector cut into 2^depth       *)
(* leaves of `batch` elements, nodes built by the folding rule.            *)
(***************************************************************************)
NoTree == [data |-> <<>>, batch |-> 1]

TreeDepth(t) == log2_strict_usize(Len(t.data) \div t.batch)

\* the values of leaf j (from 0)
Leaf(t, j) == SubSeq(t.data, j * t.batch + 1, (j + 1) * t.batch)

\* node j of depth k: a leaf digest at the tree's depth, else the compression
\* of its two children
RECURSIVE Node(_, _, _)
Node(t, k, j) ==
  IF k >= TreeDepth(t) THEN hash_serialize(Leaf(t, j))
  ELSE compress(Node(t, k + 1, 2 * j), Node(t, k + 1, 2 * j + 1))

Root(t) == Node(t, 0, 0)

\* the layer of depth k, left to right
Layer(t, k) == [j \in 1..(2 ^ k) |-> Node(t, k, j - 1)]

Sibling(j) == IF j % 2 = 0 THEN j + 1 ELSE j - 1

\* the sibling digests of the path from leaf j up to the layer of depth k,
\* leaf level first
TruePath(t, j, k) ==
  [s \in 1..(TreeDepth(t) - k) |->
     Node(t, TreeDepth(t) - s + 1, Sibling(j \div (2 ^ (s - 1))))]

(***************************************************************************)
(* The calls the model makes.  The scheme reads field elements only to     *)
(* hash them, so vectors are taken up to a renaming of the field elements: *)
(* a value appears only after every smaller one has.                       *)
(***************************************************************************)
Canonical(s) ==
  \A p \in 1..Len(s) : \A v \in 0..(s[p] - 1) : \E q \in 1..(p - 1) : s[q] = v

Vectors(n) == {s \in [1..n -> Field] : Canonical(s)}

Trees ==
  UNION { {[data |-> s, batch |-> b] : s \in Vectors(n)}
          : <<n, b>> \in {x \in (1..MaxData) \X (1..MaxData) :
                            x[1] % x[2] = 0 /\ IsPowerOfTwo(x[1] \div x[2])} }

\* s with element p replaced by another field element
Changed(s) == {[s EXCEPT ![p] = v] : p \in 1..Len(s), v \in Field} \ {s}

\* s with one digest replaced by a digest of X
Tampered(s, X) == {[s EXCEPT ![p] = x] : p \in 1..Len(s), x \in X} \ {s}

DropLast(s) == IF s = <<>> THEN <<>> ELSE SubSeq(s, 1, Len(s) - 1)

OptimalCalls ==
  [n_queries : (0..MaxQueries) \cup {2000}, tree_depth : 0..MaxLayerArg]

ProofSizeCalls ==
  [len : 0..(2 ^ MaxLogLen + 1), n_queries : 0..MaxQueries,
   layer_depth : 0..(MaxLogLen + 1)]

FoldPool == {hash_serialize(<<0>>), hash_serialize(<<1>>)}

FoldCalls == UNION {[digests : [1..n -> FoldPool]] : n \in 0..MaxFoldLen}

\* vectors of every length and batch sizes that divide them or not; the root
\* is that of the vector, that of a vector one element away, or junk
VectorCalls ==
  UNION { LET shaped == b > 0 /\ Len(s) % b = 0 /\ IsPowerOfTwo(Len(s) \div b)
              roots == IF shaped
                       THEN {Root([data |-> x, batch |-> b]) : x \in {s} \cup Changed(s)}
                       ELSE {}
          IN  [root : roots \cup {<<2>>}, data : {s}, batch_size : {b}]
          : <<s, b>> \in (UNION {Vectors(n) : n \in 0..MaxData}) \X (0..MaxData) }

\* the true layer of depth k, with one digest replaced, one dropped, one
\* added, or empty; the true root or junk; every layer_depth around
LayerCalls(t, k) ==
  [root : {Root(t), <<2>>},
   layer_depth : (0..(TreeDepth(t) + 1)) \cup {UsizeBits},
   layer_digests : {Layer(t, k), DropLast(Layer(t, k)), Layer(t, k) \o <<(<<2>>)>>, <<>>}
                     \cup Tampered(Layer(t, k), {<<2>>})]

\* the true opening of leaf j against the layer of depth k, the reader holding
\* the path and one more digest
TrueOpening(t, j, k) ==
  [index |-> j, values |-> Leaf(t, j), layer_depth |-> k,
   tree_depth |-> TreeDepth(t), layer_digests |-> Layer(t, k),
   proof |-> [buf |-> TruePath(t, j, k) \o <<(<<3>>)>>, pos |-> 0]]

\* the true opening and the calls one or two changes away from it
OpeningCalls(t, j, k) ==
  LET c == TrueOpening(t, j, k)
      d == TreeDepth(t)
      path == TruePath(t, j, k)
      depths == (0..(d + 1)) \cup {UsizeBits}
      short == DropLast(c.layer_digests)
      long == c.layer_digests \o <<(<<2>>)>>
  IN  {c}
      \cup {[c EXCEPT !.index = x] : x \in 0..(2 ^ d)}
      \cup {[c EXCEPT !.values = v] : v \in Changed(c.values) \cup {<<>>}}
      \cup {[c EXCEPT !.proof.buf = p \o <<(<<3>>)>>]
              : p \in Tampered(path, Junk \cup {hash_serialize(c.values)})}
      \cup {[c EXCEPT !.proof.buf = b] : b \in {path, DropLast(path), <<>>}}
      \cup {[c EXCEPT !.proof = [buf |-> <<(<<2>>)>> \o c.proof.buf, pos |-> 1]]}
      \cup {[c EXCEPT !.layer_digests = x]
              : x \in Tampered(c.layer_digests, {<<2>>}) \cup {short, long}}
      \cup {[c EXCEPT !.layer_depth = x] : x \in depths}
      \cup {[c EXCEPT !.tree_depth = x] : x \in depths}
      \cup {[c EXCEPT !.layer_depth = d + 1,
                      !.layer_digests = [x \in 1..(2 ^ (d + 1)) |-> <<2>>]]}
      \cup {[c EXCEPT !.index = 2 ^ d, !.layer_digests = x] : x \in {short, long}}

(***************************************************************************)
(* The state machine.                                                      *)
(***************************************************************************)
Idle ==
  /\ pc = "call"
  /\ result = NoResult
  /\ digests = <<>>
  /\ len = 0
  /\ i = 0

InitOptimal ==
  /\ op = "optimal_verify_layer"
  /\ args \in OptimalCalls
  /\ tree = NoTree
  /\ reader = [buf |-> <<>>, pos |-> 0]

InitProofSize ==
  /\ op = "proof_size"
  /\ args \in ProofSizeCalls
  /\ tree = NoTree
  /\ reader = [buf |-> <<>>, pos |-> 0]

InitFold ==
  /\ op = "fold_digests_vector_inplace"
  /\ args \in FoldCalls
  /\ tree = NoTree
  /\ reader = [buf |-> <<>>, pos |-> 0]

InitVerifyVector ==
  /\ op = "verify_vector"
  /\ args \in VectorCalls
  /\ tree = NoTree
  /\ reader = [buf |-> <<>>, pos |-> 0]

InitVerifyLayer ==
  /\ op = "verify_layer"
  /\ tree \in Trees
  /\ \E k \in 0..TreeDepth(tree) : args \in LayerCalls(tree, k)
  /\ reader = [buf |-> <<>>, pos |-> 0]

InitVerifyOpening ==
  /\ op = "verify_opening"
  /\ tree \in Trees
  /\ \E j \in 0..(2 ^ TreeDepth(tree) - 1), k \in 0..TreeDepth(tree) :
       args \in OpeningCalls(tree, j, k)
  /\ reader = args.proof

Init ==
  /\ Idle
  /\ \/ InitOptimal
     \/ InitProofSize
     \/ InitFold
     \/ InitVerifyVector
     \/ InitVerifyLayer
     \/ InitVerifyOpening

Return(res) ==
  /\ result' = res
  /\ pc' = "returned"
  /\ UNCHANGED <<op, args, tree>>

OptimalVerifyLayer ==
  /\ pc = "call" /\ op = "optimal_verify_layer"
  /\ Return(Ok(optimal_verify_layer(args.n_queries, args.tree_depth)))
  /\ UNCHANGED <<reader, digests, len, i>>

ProofSize ==
  /\ pc = "call" /\ op = "proof_size"
  /\ \E res \in proof_size(args.len, args.n_queries, args.layer_depth) : Return(res)
  /\ UNCHANGED <<reader, digests, len, i>>

VerifyVector ==
  /\ pc = "call" /\ op = "verify_vector"
  /\ \E res \in verify_vector(args.root, args.data, args.batch_size) : Return(res)
  /\ UNCHANGED <<reader, digests, len, i>>

VerifyLayer ==
  /\ pc = "call" /\ op = "verify_layer"
  /\ \E res \in verify_layer(args.root, args.layer_depth, args.layer_digests) : Return(res)
  /\ UNCHANGED <<reader, digests, len, i>>

VerifyOpening ==
  /\ pc = "call" /\ op = "verify_opening"
  /\ \E o \in verify_opening(args, reader) :
       /\ Return(o.res)
       /\ reader' = [reader EXCEPT !.pos = o.pos]
  /\ UNCHANGED <<digests, len, i>>

\* fold_digests_vector_inplace on its own, one step at a time
FoldReject ==
  /\ pc = "call" /\ op = "fold_digests_vector_inplace"
  /\ ~IsPowerOfTwo(Len(args.digests))
  /\ digests' = args.digests
  /\ Return(Err("PowerOfTwoLengthRequired"))
  /\ UNCHANGED <<reader, len, i>>

FoldEnter ==
  /\ pc = "call" /\ op = "fold_digests_vector_inplace"
  /\ IsPowerOfTwo(Len(args.digests))
  /\ digests' = args.digests
  /\ len' = Len(args.digests) \div 2
  /\ i' = 0
  /\ pc' = "fold"
  /\ UNCHANGED <<op, args, tree, reader, result>>

FoldStep ==
  /\ pc = "fold" /\ len # 0 /\ i < len
  /\ digests' = FoldWrite(digests, i)
  /\ i' = i + 1
  /\ UNCHANGED <<op, args, tree, reader, pc, result, len>>

FoldNextPass ==
  /\ pc = "fold" /\ len # 0 /\ i = len
  /\ len' = len \div 2
  /\ i' = 0
  /\ UNCHANGED <<op, args, tree, reader, pc, result, digests>>

FoldReturn ==
  /\ pc = "fold" /\ len = 0
  /\ Return(Ok(0))
  /\ UNCHANGED <<reader, digests, len, i>>

Next ==
  \/ OptimalVerifyLayer
  \/ ProofSize
  \/ VerifyVector
  \/ VerifyLayer
  \/ VerifyOpening
  \/ FoldReject
  \/ FoldEnter
  \/ FoldStep
  \/ FoldNextPass
  \/ FoldReturn

Spec == Init /\ [][Next]_vars

(***************************************************************************)
(* Properties.                                                             *)
(***************************************************************************)
Returned(o) == pc = "returned" /\ op = o

\* the least k with 2^k >= n
CeilLog2(n) ==
  CHOOSE k \in 0..UsizeBits : 2 ^ k >= n /\ \A j \in 0..(k - 1) : 2 ^ j < n

\* the digest after the first k siblings, the side taken from bit k - 1 of the
\* index the call was given
RECURSIVE PathDigest(_, _, _, _)
PathDigest(index, values, siblings, k) ==
  IF k = 0 THEN hash_serialize(values)
  ELSE IF (index \div (2 ^ (k - 1))) % 2 = 0
       THEN compress(PathDigest(index, values, siblings, k - 1), siblings[k])
       ELSE compress(siblings[k], PathDigest(index, values, siblings, k - 1))

\* the digests the reader holds at and after the cursor the call was given
Remaining(a) == SubSeq(a.proof.buf, a.proof.pos + 1, Len(a.proof.buf))

\* C1: verify_opening with a layer of 2^layer_depth digests, index <
\* 2^tree_depth, layer_depth <= tree_depth and enough digests in the stream
\* recombines the leaf hash with the siblings in the order read, the running
\* digest on the left when the index bit is 0 and on the right when it is 1;
\* it accepts iff the final digest is layer_digests[index >> (tree_depth -
\* layer_depth)], a valid position, and returns InvalidProof otherwise.
C1_OpeningRecombines ==
  (/\ Returned("verify_opening")
   /\ Len(args.layer_digests) = 2 ^ args.layer_depth
   /\ args.index < 2 ^ args.tree_depth
   /\ args.layer_depth <= args.tree_depth
   /\ Len(Remaining(args)) >= args.tree_depth - args.layer_depth)
  => LET n == args.tree_depth - args.layer_depth
         final == PathDigest(args.index, args.values, Remaining(args), n)
         at == args.index \div (2 ^ n)
     IN  /\ at < Len(args.layer_digests)
         /\ result = IF final = args.layer_digests[at + 1] THEN Ok(0)
                     ELSE Err("InvalidProof")

C1_Witness ==
  /\ Returned("verify_opening")
  /\ result = Ok(0)
  /\ args.index = 1
  /\ args.tree_depth = 2
  /\ args.layer_depth = 0
  /\ Len(Remaining(args)) >= 2

\* the arguments are the true opening of leaf j of the tree against its layer
\* of depth k, the true sibling path next in the stream
IsTrueOpening(t, a, j, k) ==
  /\ a.index = j
  /\ a.values = Leaf(t, j)
  /\ a.layer_depth = k
  /\ a.tree_depth = TreeDepth(t)
  /\ a.layer_digests = Layer(t, k)
  /\ Len(Remaining(a)) >= TreeDepth(t) - k
  /\ SubSeq(Remaining(a), 1, TreeDepth(t) - k) = TruePath(t, j, k)

\* C2: for a tree built by the folding rule and every layer_depth from 0 to
\* tree_depth, verify_layer accepts the true layer against the root and
\* verify_opening accepts every leaf with its values, the true layer and its
\* true sibling path (an empty path when layer_depth = tree_depth).
C2_TrueLayerAndOpeningsAccepted ==
  /\ (/\ Returned("verify_layer")
      /\ args.root = Root(tree)
      /\ args.layer_depth <= TreeDepth(tree)
      /\ args.layer_digests = Layer(tree, args.layer_depth))
     => result = Ok(0)
  /\ (/\ Returned("verify_opening")
      /\ \E j \in 0..(2 ^ TreeDepth(tree) - 1), k \in 0..TreeDepth(tree) :
           IsTrueOpening(tree, args, j, k))
     => result = Ok(0)

C2_Witness ==
  /\ Returned("verify_opening")
  /\ TreeDepth(tree) = 2
  /\ IsTrueOpening(tree, args, 3, 1)
  /\ result = Ok(0)

\* the vector splits into a power-of-two number of batch_size chunks
Shaped(data, batch_size) ==
  /\ batch_size > 0
  /\ Len(data) % batch_size = 0
  /\ IsPowerOfTwo(Len(data) \div batch_size)

\* C3: on a vector of a power-of-two number of batch_size chunks verify_vector
\* accepts the root of the tree over the chunk hashes, and returns
\* InvalidProof for every other root and for the root of a vector that
\* differs in one element.
C3_VectorRoundTrip ==
  (Returned("verify_vector") /\ Shaped(args.data, args.batch_size))
  => LET true == Root([data |-> args.data, batch |-> args.batch_size])
     IN  /\ args.root = true => result = Ok(0)
         /\ args.root # true => result = Err("InvalidProof")
         /\ \A x \in Changed(args.data) :
              args.root = Root([data |-> x, batch |-> args.batch_size])
              => result = Err("InvalidProof")

C3_Witness ==
  /\ Returned("verify_vector")
  /\ Len(args.data) = 4
  /\ args.batch_size = 1
  /\ \E x \in Changed(args.data) : args.root = Root([data |-> x, batch |-> 1])
  /\ result = Err("InvalidProof")

\* C4: for a power-of-two vector_len and every layer_depth from 0 to
\* log2(vector_len), that depth included, proof_size returns ((log_len -
\* layer_depth - 1) * n_queries + 2^layer_depth) * digest_byte_size, computed
\* without underflow or overflow.
C4_ProofSizeFormula ==
  (/\ Returned("proof_size")
   /\ IsPowerOfTwo(args.len)
   /\ args.layer_depth <= log2_strict_usize(args.len))
  => result = Ok(((log2_strict_usize(args.len) - args.layer_depth - 1) * args.n_queries
                   + 2 ^ args.layer_depth) * DigestByteSize)

\* a call all of whose outcomes are an acceptance
Succeeds(b) == \A o \in verify_opening(b, b.proof) : o.res = Ok(0)

\* every node digest of the tree
TreeDigests(t) ==
  {Node(t, k, j) : <<k, j>> \in {x \in (0..TreeDepth(t)) \X (0..(2 ^ TreeDepth(t) - 1)) :
                                   x[2] < 2 ^ x[1]}}

DistinctLeaves(t) ==
  \A j, k \in 0..(2 ^ TreeDepth(t) - 1) : j # k => Leaf(t, j) # Leaf(t, k)

\* the calls that differ from a in the index alone, in one element of values
\* alone, in one sibling digest of the path alone
IndexBases(a) ==
  IF a.tree_depth >= UsizeBits \/ a.index >= 2 ^ a.tree_depth THEN {}
  ELSE {[a EXCEPT !.index = x] : x \in 0..(2 ^ a.tree_depth - 1)} \ {a}

ValueBases(a) == {[a EXCEPT !.values = v] : v \in Changed(a.values)}

SiblingBases(a) ==
  LET n == a.tree_depth - a.layer_depth
      pool == Junk \cup TreeDigests(tree) \cup {hash_serialize(a.values)}
  IN  IF n < 0 \/ n > Len(Remaining(a)) THEN {}
      ELSE {[a EXCEPT !.proof.buf[p] = x]
              : p \in (a.proof.pos + 1)..(a.proof.pos + n), x \in pool} \ {a}

\* C5, as claimed: a call one change away from an accepted one (one sibling
\* digest replaced, one element of values changed, or another index below
\* 2^tree_depth) is not accepted.
C5_AnySingleChangeFails ==
  Returned("verify_opening")
  => \A b \in IndexBases(args) \cup ValueBases(args) \cup SiblingBases(args) :
       Succeeds(b) => result.kind # "ok"

\* C5, amended: a call one sibling digest or one element of values away from
\* an accepted one returns InvalidProof; so does a call with another index
\* below 2^tree_depth when the layer is the true layer of a tree of depth
\* tree_depth whose leaves are pairwise distinct.
C5_SingleChangeFails ==
  Returned("verify_opening")
  => /\ \A b \in ValueBases(args) \cup SiblingBases(args) :
          Succeeds(b) => result = Err("InvalidProof")
     /\ (/\ DistinctLeaves(tree)
         /\ args.tree_depth = TreeDepth(tree)
         /\ args.layer_depth <= TreeDepth(tree)
         /\ args.layer_digests = Layer(tree, args.layer_depth))
        => \A b \in IndexBases(args) : Succeeds(b) => result = Err("InvalidProof")

C5_Witness ==
  /\ Returned("verify_opening")
  /\ TreeDepth(tree) = 2
  /\ DistinctLeaves(tree)
  /\ args.layer_depth = 1
  /\ args.layer_digests = Layer(tree, 1)
  /\ \E b \in IndexBases(args) : Succeeds(b)
  /\ result = Err("InvalidProof")

\* C6, as claimed: every verify_opening call with index >= 2^tree_depth
\* returns IndexOutOfRange with max = 2^tree_depth - 1, whatever the other
\* arguments.
C6_OutOfRangeWhateverTheRest ==
  (Returned("verify_opening") /\ args.index >= 2 ^ args.tree_depth)
  => result = ErrMax("IndexOutOfRange", 2 ^ args.tree_depth - 1)

\* C6, amended: every verify_opening call with index >= 2^tree_depth and a
\* layer of 2^layer_depth digests returns IndexOutOfRange with max =
\* 2^tree_depth - 1, whatever the values, the depths and the proof stream.
C6_OutOfRangeAfterLayerCheck ==
  (/\ Returned("verify_opening")
   /\ args.index >= 2 ^ args.tree_depth
   /\ Len(args.layer_digests) = 2 ^ args.layer_depth)
  => result = ErrMax("IndexOutOfRange", 2 ^ args.tree_depth - 1)

C6_Witness ==
  /\ Returned("verify_opening")
  /\ args.index = 4
  /\ args.tree_depth = 2
  /\ Len(args.layer_digests) = 2 ^ args.layer_depth
  /\ result = ErrMax("IndexOutOfRange", 3)

\* the arguments of the call have a shape error
ShapeError ==
  \/ /\ op = "proof_size"
     /\ \/ ~IsPowerOfTwo(args.len)
        \/ args.layer_depth > log2_strict_usize(args.len)
  \/ /\ op = "verify_vector"
     /\ \/ args.batch_size = 0 /\ Len(args.data) > 0
        \/ args.batch_size > 0 /\ ~Shaped(args.data, args.batch_size)
  \/ /\ op = "verify_layer"
     /\ Len(args.layer_digests) # 2 ^ args.layer_depth
  \/ /\ op = "verify_opening"
     /\ \/ Len(args.layer_digests) # 2 ^ args.layer_depth
        \/ args.layer_depth > args.tree_depth
        \/ args.index >= 2 ^ args.tree_depth

\* C7: a call of proof_size, verify_vector, verify_layer or verify_opening
\* whose arguments have a shape error returns a typed error: it does not
\* panic and does not succeed.
C7_ShapeErrorsAreReported ==
  (pc = "returned" /\ ShapeError) => result.kind = "err"

\* C8: a verify_opening call that passes both shape checks (neither rejects
\* and neither panics on its shift) and is accepted or answered InvalidProof
\* has moved the cursor by exactly tree_depth - layer_depth digests, which it
\* does whenever that many remain; with fewer it returns the stream error; a
\* call rejected by a shape check leaves the cursor where it was.
C8_CursorAdvance ==
  Returned("verify_opening")
  => LET passes == /\ "pass" \in LayerLengthCheck(args.layer_depth, args.layer_digests)
                   /\ Ok(0) \in IndexCheck(args.index, args.tree_depth)
                   /\ result # Panic("attempt to shift left with overflow")
         n == args.tree_depth - args.layer_depth
         left == Len(Remaining(args))
     IN  /\ reader.buf = args.proof.buf
         /\ (passes /\ left < n) => result = Err("TranscriptError")
         /\ (passes /\ result \in {Ok(0), Err("InvalidProof")})
            => reader.pos = args.proof.pos + n
         \* and, with a path length that is a count, it does end one of the two ways
         /\ (passes /\ 0 <= n /\ n <= left)
            => /\ result \in {Ok(0), Err("InvalidProof")}
               /\ reader.pos = args.proof.pos + n
         /\ result.err \in {"IncorrectVectorLength", "IndexOutOfRange"}
            => reader.pos = args.proof.pos

C8_Witness ==
  /\ Returned("verify_opening")
  /\ args.proof.pos = 1
  /\ Len(args.proof.buf) = 4
  /\ args.tree_depth - args.layer_depth = 2
  /\ reader.pos = 3
  /\ result = Ok(0)

\* C9: optimal_verify_layer returns min(ceil(log2(n_queries)), tree_depth),
\* never more than tree_depth; 5 queries and depth 10 give 3, 2000 queries
\* and depth 8 give 8.
C9_OptimalLayer ==
  Returned("optimal_verify_layer")
  => /\ result = Ok(Min(CeilLog2(args.n_queries), args.tree_depth))
     /\ result.val <= args.tree_depth
     /\ (args.n_queries = 5 /\ args.tree_depth = 10) => result.val = 3
     /\ (args.n_queries = 2000 /\ args.tree_depth = 8) => result.val = 8

C9_Witness ==
  /\ Returned("optimal_verify_layer")
  /\ args.n_queries = 5
  /\ args.tree_depth = 10
  /\ result = Ok(3)

\* the compress-tree, left then right, of the n digests of s from position lo
RECURSIVE SubRoot(_, _, _)
SubRoot(s, lo, n) ==
  IF n = 1 THEN s[lo + 1]
  ELSE compress(SubRoot(s, lo, n \div 2), SubRoot(s, lo + n \div 2, n \div 2))

\* C10: while fold_digests_vector_inplace runs the pass of working length
\* len on a buffer of power-of-two length N, the entries already written,
\* digests[0..i), are the nodes of depth log2(len) of the original digests
\* and the entries not yet read, digests[2i..2len), are still those of the
\* pass before; on return digests[0] is the left-then-right compress-tree of
\* the original digests (for N = 1 the buffer is unchanged).  On any other
\* length, 0 included, it returns PowerOfTwoLengthRequired and the buffer is
\* unchanged.
C10_FoldInvariant ==
  op = "fold_digests_vector_inplace"
  => LET orig == args.digests
         N == Len(orig)
     IN  /\ (pc = "fold" /\ len # 0)
            => /\ \A j \in 0..(i - 1) :
                    digests[j + 1] = SubRoot(orig, j * (N \div len), N \div len)
               /\ \A j \in (2 * i)..(2 * len - 1) :
                    digests[j + 1] = SubRoot(orig, j * (N \div (2 * len)), N \div (2 * len))
         /\ (pc = "fold" /\ len = 0) => digests[1] = SubRoot(orig, 0, N)
         /\ pc = "returned"
            => /\ fold_digests_vector_inplace(orig) = [res |-> result, digests |-> digests]
               /\ IF IsPowerOfTwo(N)
                  THEN /\ result = Ok(0)
                       /\ digests[1] = SubRoot(orig, 0, N)
                       /\ N = 1 => digests = orig
                  ELSE /\ result = Err("PowerOfTwoLengthRequired")
                       /\ digests = orig

C10_Witness ==
  /\ op = "fold_digests_vector_inplace"
  /\ pc = "fold"
  /\ Len(args.digests) = 8
  /\ len = 2
  /\ i = 1
  /\ digests[1] # digests[3]

====
